---- MODULE Spec2Model ----
(***************************************************************************)
(* Model of src/retry_utils.py: the CircuitBreaker state machine and the   *)
(* retry_with_backoff attempt loop.                                        *)
(*                                                                         *)
(* Spec       one CircuitBreaker used by non-overlapping calls, with a     *)
(*            clock (time.time()) that advances between and during calls.  *)
(* SpecRetry  one call of a retry_with_backoff-wrapped operation whose     *)
(*            every attempt may return a value or raise an error.          *)
(* SpecConc   one CircuitBreaker used by callers whose calls overlap, each *)
(*            read and write of a field of the breaker being one step.     *)
(* SpecOuter  the retrier's wrapper around the breaker's wrapper around an *)
(*            operation.                                                   *)
(* SpecRate   simple_rate_limit in front of the routes it decorates.       *)
(* SpecCache  one SimpleCache under set, get, delete and clear.            *)
(* SpecSheet  the routes of app.py over the subscribers' sheet.            *)
(* SpecLive   one CircuitBreaker around an operation that is down for a    *)
(*            while and then recovers, with callers that keep calling and  *)
(*            a clock that keeps advancing.                                *)
(* SpecNews   calls of fetch_news_perplexity behind its retrier, the remote *)
(*            service replying or failing in every way.                    *)
(* SpecStack  the breaker's wrapper around the retrier's wrapper around an *)
(*            operation, and what the callers of the news fetch make of    *)
(*            the outcome the outer wrapper hands them.                    *)
(***************************************************************************)
EXTENDS Integers, Sequences, FiniteSets, TLC

\* ------------------------------------------------------------------ bounds
NumCallers == 2      \* callers that use the one breaker, one at a time
MaxThreshold == 3    \* failure_threshold is drawn from 1..MaxThreshold
MaxTimeout == 2      \* recovery_timeout is drawn from 0..MaxTimeout
MaxTime == 4         \* the clock runs over 0..MaxTime
MaxCalls == 5        \* calls of the breaker's wrapper per behaviour
MaxAttempts == 3     \* max_attempts is drawn from 0..MaxAttempts
MaxBaseDelay == 2    \* base_delay is drawn from 1..MaxBaseDelay
MaxMultiplier == 3   \* backoff_multiplier is drawn from 1..MaxMultiplier
MaxMaxDelay == 5     \* max_delay is drawn from 1..MaxMaxDelay
MaxReplyItems == 3   \* news items in one reply of the remote service
MaxItems == 2        \* max_items is drawn from 1..MaxItems
MaxRequests == 2     \* max_requests is drawn from 1..MaxRequests
MaxWindow == 2       \* window_seconds is drawn from 1..MaxWindow
MaxTtl == 2          \* ttl_seconds is drawn from 0..MaxTtl

VARIABLES
  \* CircuitBreaker fields (src/retry_utils.py:54-59)
  failure_threshold, recovery_timeout, failure_count, last_failure_time, state,
  \* time.time()
  now,
  \* where each caller of the breaker's wrapper stands, and how its last call ended
  pc, outcome,
  \* observers: calls of the wrapper; how the gate let each caller's last call in;
  \* invocations of the wrapped function; the forwarded calls that failed in a
  \* row, since the last forwarded call that ended otherwise
  calls, gate, invoked, streak,
  \* retry_with_backoff parameters (src/retry_utils.py:11-17)
  max_attempts, base_delay, max_delay, backoff_multiplier, exceptions,
  \* retry_with_backoff.wrapper locals and position
  attempt, last_exception, rpc, result,
  \* observers: what func did on each attempt; the delays passed to time.sleep
  trace, sleeps,
  \* what the module's logger (line 9) was given, in order
  log,
  \* specifications with overlapping calls: the failure_count a caller has read
  \* in "self.failure_count += 1" and not yet written back
  loaded,
  \* specifications with the decorators stacked: what the outer wrapper handed
  \* to the caller of the last call, all invocations of the innermost
  \* operation, and what the calling layer made of the last call
  got, op_invoked, delivered,
  \* SimpleCache fields (src/cache.py:15-17); observers: per key the latest
  \* set and whether a delete or clear followed it, and what the last get
  \* returned
  _cache, _timestamps, last_set, cache_ret,
  \* simple_rate_limit parameters and the module's storage (src/utils.py:69-71);
  \* observers: the answer to the last request, and the calls of the handler
  max_requests, window_seconds, _rate_limit_storage, response, handled,
  \* the rows of the subscribers' sheet below its header row (src/sheets.py);
  \* observer: the last call of verify_otp with what it returned
  sheet, otp_ret,
  \* observer of the stack with the retrier outside: the breaker's fields and
  \* the clock when the retrier's wrapper was entered
  at_entry

cbVars == <<failure_threshold, recovery_timeout, failure_count, last_failure_time,
            state, now, pc, outcome, calls, gate, invoked, streak>>
rtVars == <<max_attempts, base_delay, max_delay, backoff_multiplier, exceptions,
            attempt, last_exception, rpc, result, trace, sleeps>>
xVars == <<loaded, got, op_invoked, delivered>>
\* the application: SimpleCache (cache.py), the rate limiter (utils.py) and the
\* subscribers' sheet (sheets.py)
cacheVars == <<_cache, _timestamps, last_set, cache_ret>>
rateVars == <<max_requests, window_seconds, _rate_limit_storage, response, handled>>
sheetVars == <<sheet, otp_ret>>
appVars == <<cacheVars, rateVars, sheetVars, at_entry>>
vars == <<cbVars, rtVars, log, xVars, appVars>>

Callers == 1..NumCallers

\* Python's None for last_failure_time / last_exception; a set value v is <<v>>
None == <<>>

\* ------------------------------------------------------- CircuitBreaker

\* CircuitBreaker.__init__
CBInit ==
  /\ failure_threshold \in 1..MaxThreshold
  /\ recovery_timeout \in 0..MaxTimeout
  /\ failure_count = 0
  /\ last_failure_time = None
  /\ state = "CLOSED"
  /\ now = 0
  /\ pc = [c \in Callers |-> "idle"]
  /\ outcome = [c \in Callers |-> "none"]
  /\ calls = 0
  /\ gate = [c \in Callers |-> "none"]
  /\ invoked = 0
  /\ streak = 0

should_attempt_reset_never == FALSE

should_attempt_reset_strict ==
  IF last_failure_time = None THEN TRUE
  ELSE now - last_failure_time[1] > recovery_timeout

\* CircuitBreaker._should_attempt_reset
should_attempt_reset ==
  IF last_failure_time = None THEN TRUE
  ELSE now - last_failure_time[1] >= recovery_timeout

on_success_keep_count ==
  /\ failure_count' = failure_count
  /\ state' = "CLOSED"
  /\ UNCHANGED <<last_failure_time, log>>

\* CircuitBreaker._on_success
on_success ==
  /\ failure_count' = 0
  /\ state' = "CLOSED"
  /\ UNCHANGED <<last_failure_time, log>>

\* the warning of line 98
OpenedEvent(n) == [level |-> "warning", msg |-> "opened", failures |-> n]

on_failure_no_stamp ==
  /\ failure_count' = failure_count + 1
  /\ UNCHANGED last_failure_time
  /\ state' = IF failure_count' >= failure_threshold THEN "OPEN" ELSE state
  /\ log' = IF failure_count' >= failure_threshold
              THEN Append(log, OpenedEvent(failure_count')) ELSE log

on_failure_open_late ==
  /\ failure_count' = failure_count + 1
  /\ last_failure_time' = <<now>>
  /\ state' = IF failure_count' > failure_threshold THEN "OPEN" ELSE state
  /\ log' = IF failure_count' > failure_threshold
              THEN Append(log, OpenedEvent(failure_count')) ELSE log

on_failure_open_always ==
  /\ failure_count' = failure_count + 1
  /\ last_failure_time' = <<now>>
  /\ state' = "OPEN"
  /\ log' = Append(log, OpenedEvent(failure_count'))

on_failure_silent ==
  /\ failure_count' = failure_count + 1
  /\ last_failure_time' = <<now>>
  /\ state' = IF failure_count' >= failure_threshold THEN "OPEN" ELSE state
  /\ UNCHANGED log

\* CircuitBreaker._on_failure
on_failure ==
  /\ failure_count' = failure_count + 1
  /\ last_failure_time' = <<now>>
  /\ state' = IF failure_count' >= failure_threshold THEN "OPEN" ELSE state
  /\ log' = IF failure_count' >= failure_threshold
              THEN Append(log, OpenedEvent(failure_count')) ELSE log

Reject_counts_failure(c) ==
  /\ outcome' = [outcome EXCEPT ![c] = "rejected"]
  /\ gate' = [gate EXCEPT ![c] = "reject"]
  /\ failure_count' = failure_count + 1
  /\ UNCHANGED <<state, last_failure_time, pc, invoked>>

\* the rejection of wrapper, line 68: the raise leaves every field alone
Reject(c) ==
  /\ outcome' = [outcome EXCEPT ![c] = "rejected"]
  /\ gate' = [gate EXCEPT ![c] = "reject"]
  /\ UNCHANGED <<state, failure_count, last_failure_time, pc, invoked>>

\* wrapper up to the invocation of func, line 71
Forward(c, st) ==
  /\ state' = st
  /\ gate' = [gate EXCEPT ![c] = IF st = "HALF_OPEN" /\ state = "OPEN" THEN "probe" ELSE "pass"]
  /\ pc' = [pc EXCEPT ![c] = "in_func"]
  /\ outcome' = [outcome EXCEPT ![c] = "pending"]
  /\ invoked' = invoked + 1
  /\ UNCHANGED <<failure_count, last_failure_time>>

\* A caller enters wrapper: the gate of lines 64-68, then func is invoked.
\* Calls do not overlap: no other caller is inside the wrapper. Nothing is
\* logged on the way in.
BreakerEnter(c) ==
  /\ \A d \in Callers : pc[d] = "idle"
  /\ calls < MaxCalls
  /\ calls' = calls + 1
  /\ IF state = "OPEN"
       THEN IF should_attempt_reset THEN Forward(c, "HALF_OPEN") ELSE Reject(c)
       ELSE Forward(c, state)
  /\ UNCHANGED <<failure_threshold, recovery_timeout, now, streak>>

Call(c) == BreakerEnter(c) /\ UNCHANGED <<log, rtVars, xVars, appVars>>

\* func returned: lines 71-73
BreakerReturn(c) ==
  /\ pc[c] = "in_func"
  /\ on_success
  /\ pc' = [pc EXCEPT ![c] = "idle"]
  /\ outcome' = [outcome EXCEPT ![c] = "returned"]
  /\ streak' = 0
  /\ UNCHANGED <<failure_threshold, recovery_timeout, now, calls, gate, invoked>>

FuncReturns(c) == BreakerReturn(c) /\ UNCHANGED <<rtVars, xVars, appVars>>

BreakerExcept_without_update(c) ==
  /\ pc[c] = "in_func"
  /\ pc' = [pc EXCEPT ![c] = "idle"]
  /\ outcome' = [outcome EXCEPT ![c] = "raised"]
  /\ streak' = streak + 1
  /\ UNCHANGED <<failure_threshold, recovery_timeout, failure_count,
                 last_failure_time, state, now, calls, gate, invoked, log>>

\* func raised an Exception: lines 74-76
BreakerExcept(c) ==
  /\ pc[c] = "in_func"
  /\ on_failure
  /\ pc' = [pc EXCEPT ![c] = "idle"]
  /\ outcome' = [outcome EXCEPT ![c] = "raised"]
  /\ streak' = streak + 1
  /\ UNCHANGED <<failure_threshold, recovery_timeout, now, calls, gate, invoked>>

FuncRaises(c) == BreakerExcept(c) /\ UNCHANGED <<rtVars, xVars, appVars>>

\* func raised a BaseException that is no Exception (KeyboardInterrupt,
\* SystemExit): line 74 does not catch it, so neither _on_success nor
\* _on_failure runs and it leaves the wrapper as it is
BreakerEscape(c) ==
  /\ pc[c] = "in_func"
  /\ pc' = [pc EXCEPT ![c] = "idle"]
  /\ outcome' = [outcome EXCEPT ![c] = "interrupted"]
  /\ streak' = 0
  /\ UNCHANGED <<failure_threshold, recovery_timeout, failure_count,
                 last_failure_time, state, now, calls, gate, invoked, log>>

FuncInterrupted(c) == BreakerEscape(c) /\ UNCHANGED <<rtVars, xVars, appVars>>

\* time.time() advances, between calls and while func runs
Tick ==
  /\ now < MaxTime
  /\ now' = now + 1
  /\ UNCHANGED <<failure_threshold, recovery_timeout, failure_count,
                 last_failure_time, state, pc, outcome, calls, gate, invoked,
                 streak, log>>
  /\ UNCHANGED <<rtVars, xVars, appVars>>

\* the retrier at rest, for the breaker's specification
RTIdle ==
  /\ max_attempts = 1
  /\ base_delay = 1
  /\ max_delay = 1
  /\ backoff_multiplier = 1
  /\ exceptions = {}
  /\ attempt = 0
  /\ last_exception = None
  /\ rpc = "idle"
  /\ result = None
  /\ trace = <<>>
  /\ sleeps = <<>>

\* the variables of the other specifications, at rest
XIdle ==
  /\ loaded = [c \in Callers |-> 0]
  /\ got = None
  /\ op_invoked = 0
  /\ delivered = None

\* the application at rest, for the specifications of retry_utils.py
CacheIdle ==
  /\ _cache = <<>>
  /\ _timestamps = <<>>
  /\ last_set = <<>>
  /\ cache_ret = None

IPs == {"10.0.0.1", "10.0.0.2"}

RateIdle ==
  /\ max_requests = 1
  /\ window_seconds = 1
  /\ _rate_limit_storage = <<>>
  /\ response = None
  /\ handled = [i \in IPs |-> <<>>]

SheetIdle ==
  /\ sheet = <<>>
  /\ otp_ret = None

AppIdle == CacheIdle /\ RateIdle /\ SheetIdle /\ at_entry = None

Init == CBInit /\ RTIdle /\ log = <<>> /\ XIdle /\ AppIdle

Next ==
  \/ \E c \in Callers : Call(c)
  \/ \E c \in Callers : FuncReturns(c)
  \/ \E c \in Callers : FuncRaises(c)
  \/ \E c \in Callers : FuncInterrupted(c)
  \/ Tick

Spec == Init /\ [][Next]_vars

Idle == \A c \in Callers : pc[c] = "idle"

\* ------------------------------------- CircuitBreaker, overlapping calls
\* The class takes no lock, so a thread may be switched out between any two
\* reads or writes of the breaker's fields. Each action below is one such read
\* or write of wrapper, _should_attempt_reset, _on_success or _on_failure.

cbConfig == <<failure_threshold, recovery_timeout>>

\* line 64: the caller reads self.state; when it is not OPEN func is invoked
\* (line 71)
ReadState(c) ==
  /\ pc[c] = "idle"
  /\ calls < MaxCalls
  /\ calls' = calls + 1
  /\ IF state = "OPEN"
       THEN /\ pc' = [pc EXCEPT ![c] = "gate_open"]
            /\ UNCHANGED <<gate, outcome, invoked>>
       ELSE /\ pc' = [pc EXCEPT ![c] = "in_func"]
            /\ gate' = [gate EXCEPT ![c] = "pass"]
            /\ outcome' = [outcome EXCEPT ![c] = "pending"]
            /\ invoked' = invoked + 1
  /\ UNCHANGED <<cbConfig, failure_count, last_failure_time, state, now, streak>>
  /\ UNCHANGED <<rtVars, log, xVars, appVars>>

\* lines 65 and 80-84, and the raise of line 68
CheckReset(c) ==
  /\ pc[c] = "gate_open"
  /\ IF should_attempt_reset
       THEN /\ pc' = [pc EXCEPT ![c] = "set_half_open"]
            /\ UNCHANGED <<gate, outcome>>
       ELSE /\ pc' = [pc EXCEPT ![c] = "idle"]
            /\ gate' = [gate EXCEPT ![c] = "reject"]
            /\ outcome' = [outcome EXCEPT ![c] = "rejected"]
  /\ UNCHANGED <<cbConfig, failure_count, last_failure_time, state, now, calls,
                 invoked, streak>>
  /\ UNCHANGED <<rtVars, log, xVars, appVars>>

\* line 66, and func is invoked (line 71)
SetHalfOpen(c) ==
  /\ pc[c] = "set_half_open"
  /\ state' = "HALF_OPEN"
  /\ pc' = [pc EXCEPT ![c] = "in_func"]
  /\ gate' = [gate EXCEPT ![c] = "probe"]
  /\ outcome' = [outcome EXCEPT ![c] = "pending"]
  /\ invoked' = invoked + 1
  /\ UNCHANGED <<cbConfig, failure_count, last_failure_time, now, calls, streak>>
  /\ UNCHANGED <<rtVars, log, xVars, appVars>>

\* func returns and _on_success begins: line 88
SuccessCount(c) ==
  /\ pc[c] = "in_func"
  /\ failure_count' = 0
  /\ pc' = [pc EXCEPT ![c] = "succ_state"]
  /\ streak' = 0
  /\ UNCHANGED <<cbConfig, last_failure_time, state, now, outcome, calls, gate,
                 invoked>>
  /\ UNCHANGED <<rtVars, log, xVars, appVars>>

\* line 89, and the return of line 73
SuccessState(c) ==
  /\ pc[c] = "succ_state"
  /\ state' = "CLOSED"
  /\ pc' = [pc EXCEPT ![c] = "idle"]
  /\ outcome' = [outcome EXCEPT ![c] = "returned"]
  /\ UNCHANGED <<cbConfig, failure_count, last_failure_time, now, calls, gate,
                 invoked, streak>>
  /\ UNCHANGED <<rtVars, log, xVars, appVars>>

\* func raises an Exception and _on_failure begins: the read of
\* "self.failure_count += 1", line 93
FailureLoad(c) ==
  /\ pc[c] = "in_func"
  /\ loaded' = [loaded EXCEPT ![c] = failure_count]
  /\ pc' = [pc EXCEPT ![c] = "fail_store"]
  /\ streak' = streak + 1
  /\ UNCHANGED <<cbConfig, failure_count, last_failure_time, state, now, outcome,
                 calls, gate, invoked>>
  /\ UNCHANGED <<rtVars, log, got, op_invoked, delivered, appVars>>

\* the write of "self.failure_count += 1", line 93
FailureStore(c) ==
  /\ pc[c] = "fail_store"
  /\ failure_count' = loaded[c] + 1
  /\ loaded' = [loaded EXCEPT ![c] = 0]
  /\ pc' = [pc EXCEPT ![c] = "fail_stamp"]
  /\ UNCHANGED <<cbConfig, last_failure_time, state, now, outcome, calls, gate,
                 invoked, streak>>
  /\ UNCHANGED <<rtVars, log, got, op_invoked, delivered, appVars>>

\* line 94
FailureStamp(c) ==
  /\ pc[c] = "fail_stamp"
  /\ last_failure_time' = <<now>>
  /\ pc' = [pc EXCEPT ![c] = "fail_check"]
  /\ UNCHANGED <<cbConfig, failure_count, state, now, outcome, calls, gate,
                 invoked, streak>>
  /\ UNCHANGED <<rtVars, log, xVars, appVars>>

\* lines 96-98, and the raise of line 76
FailureCheck(c) ==
  /\ pc[c] = "fail_check"
  /\ IF failure_count >= failure_threshold
       THEN /\ state' = "OPEN"
            /\ log' = Append(log, OpenedEvent(failure_count))
       ELSE UNCHANGED <<state, log>>
  /\ pc' = [pc EXCEPT ![c] = "idle"]
  /\ outcome' = [outcome EXCEPT ![c] = "raised"]
  /\ UNCHANGED <<cbConfig, failure_count, last_failure_time, now, calls, gate,
                 invoked, streak>>
  /\ UNCHANGED <<rtVars, xVars, appVars>>

\* func raises a BaseException that line 74 does not catch
Escape(c) ==
  /\ pc[c] = "in_func"
  /\ pc' = [pc EXCEPT ![c] = "idle"]
  /\ outcome' = [outcome EXCEPT ![c] = "interrupted"]
  /\ streak' = 0
  /\ UNCHANGED <<cbConfig, failure_count, last_failure_time, state, now, calls,
                 gate, invoked>>
  /\ UNCHANGED <<rtVars, log, xVars, appVars>>

NextConc ==
  \/ \E c \in Callers : ReadState(c)
  \/ \E c \in Callers : CheckReset(c)
  \/ \E c \in Callers : SetHalfOpen(c)
  \/ \E c \in Callers : SuccessCount(c)
  \/ \E c \in Callers : SuccessState(c)
  \/ \E c \in Callers : FailureLoad(c)
  \/ \E c \in Callers : FailureStore(c)
  \/ \E c \in Callers : FailureStamp(c)
  \/ \E c \in Callers : FailureCheck(c)
  \/ \E c \in Callers : Escape(c)
  \/ Tick

SpecConc == Init /\ [][NextConc]_vars

\* --------------------------------------------------- retry_with_backoff

\* the exception classes of the model and their base classes
BaseOf ==
  [k \in {"BaseException", "Exception", "KeyboardInterrupt", "OSError", "ValueError",
          "TypeError", "RequestException", "ConnectionError"} |->
     CASE k = "BaseException" -> "BaseException"
       [] k = "Exception" -> "BaseException"
       [] k = "KeyboardInterrupt" -> "BaseException"
       [] k = "OSError" -> "Exception"
       [] k = "ValueError" -> "Exception"
       [] k = "TypeError" -> "Exception"
       [] k = "RequestException" -> "OSError"
       [] k = "ConnectionError" -> "RequestException"]

\* issubclass(k, cls)
RECURSIVE IsSubclass(_, _)
IsSubclass(k, cls) ==
  IF k = cls THEN TRUE
  ELSE IF k = "BaseException" THEN FALSE
  ELSE IsSubclass(BaseOf[k], cls)

\* what func may raise, and what it may return
RaisedKinds == {"ConnectionError", "RequestException", "ValueError", "KeyboardInterrupt"}
Values == {"v1", "v2"}

\* the exceptions tuples: the default of line 16, that of news.py, and a pair
ExceptionTuples == {{"Exception"}, {"RequestException"}, {"ConnectionError", "ValueError"}}

Caught_everything(k) == TRUE

\* "except exceptions as e", line 29: the error is an instance of a listed class
Caught(k) == \E cls \in exceptions : IsSubclass(k, cls)

RECURSIVE Pow(_, _)
Pow(b, n) == IF n = 0 THEN 1 ELSE b * Pow(b, n - 1)

Min(a, b) == IF a <= b THEN a ELSE b

Delay_linear(i) == Min(base_delay * backoff_multiplier * i, max_delay)

\* line 38
Delay(i) == Min(base_delay * Pow(backoff_multiplier, i), max_delay)

IsLastAttempt_never == FALSE

\* line 32
IsLastAttempt == attempt = max_attempts - 1

\* the decorator's parameters, and a wrapper that has not been called
RTInit ==
  /\ max_attempts \in 0..MaxAttempts
  /\ base_delay \in 1..MaxBaseDelay
  /\ max_delay \in 1..MaxMaxDelay
  /\ backoff_multiplier \in 1..MaxMultiplier
  /\ exceptions \in ExceptionTuples
  /\ attempt = 0
  /\ last_exception = None
  /\ rpc = "idle"
  /\ result = None
  /\ trace = <<>>
  /\ sleeps = <<>>

rtConfig == <<max_attempts, base_delay, max_delay, backoff_multiplier, exceptions>>

\* wrapper is called: lines 23-26; the observers start anew with the call
RetryEnter ==
  /\ rpc = "idle"
  /\ rpc' = "loop"
  /\ attempt' = 0
  /\ last_exception' = None
  /\ result' = None
  /\ trace' = <<>>
  /\ sleeps' = <<>>
  /\ UNCHANGED rtConfig

RetryCall == RetryEnter /\ UNCHANGED <<log, cbVars, xVars, appVars>>

RetryReturn_goes_on(v) ==
  /\ rpc = "loop"
  /\ attempt < max_attempts
  /\ trace' = Append(trace, [tag |-> "ok", x |-> v])
  /\ result' = <<[tag |-> "return", val |-> v]>>
  /\ attempt' = attempt + 1
  /\ UNCHANGED <<rtConfig, rpc, last_exception, sleeps, log>>

\* one pass of the loop in which func returns v: lines 26-28
RetryReturn(v) ==
  /\ rpc = "loop"
  /\ attempt < max_attempts
  /\ trace' = Append(trace, [tag |-> "ok", x |-> v])
  /\ result' = <<[tag |-> "return", val |-> v]>>
  /\ rpc' = "done"
  /\ UNCHANGED <<rtConfig, attempt, last_exception, sleeps, log>>

AttemptReturns(v) == RetryReturn(v) /\ UNCHANGED <<cbVars, xVars, appVars>>

\* the error of line 34: the total number of attempts and the error
FailedEvent(e) ==
  [level |-> "error", msg |-> "failed", of |-> max_attempts, err |-> e]

\* the warning of line 40: the attempt number from 1, the total number of
\* attempts, the error and the delay
RetryingEvent(e, d) ==
  [level |-> "warning", msg |-> "retrying", attempt |-> attempt + 1,
   of |-> max_attempts, err |-> e, delay |-> d]

\* one pass of the loop in which func raises an error of class k: lines 26-41.
\* The error object is told from the others by the attempt that raised it.
RetryExcept(k) ==
  LET e == [kind |-> k, at |-> attempt + 1] IN
  /\ rpc = "loop"
  /\ attempt < max_attempts
  /\ trace' = Append(trace, [tag |-> "err", x |-> k])
  /\ IF ~Caught(k)
       THEN /\ result' = <<[tag |-> "raise", err |-> e]>>
            /\ rpc' = "done"
            /\ UNCHANGED <<attempt, last_exception, sleeps, log>>
       ELSE /\ last_exception' = <<e>>
            /\ IF IsLastAttempt
                 THEN /\ log' = Append(log, FailedEvent(e))
                      /\ result' = <<[tag |-> "raise", err |-> e]>>
                      /\ rpc' = "done"
                      /\ UNCHANGED <<attempt, sleeps>>
                 ELSE /\ log' = Append(log, RetryingEvent(e, Delay(attempt)))
                      /\ sleeps' = Append(sleeps, Delay(attempt))
                      /\ attempt' = attempt + 1
                      /\ UNCHANGED <<rpc, result>>
  /\ UNCHANGED rtConfig

AttemptRaises(k) == RetryExcept(k) /\ UNCHANGED <<cbVars, xVars, appVars>>

\* range(max_attempts) is used up: line 44 raises last_exception, and raising
\* None is a TypeError
LoopExhausted ==
  /\ rpc = "loop"
  /\ attempt >= max_attempts
  /\ result' = IF last_exception = None
                 THEN <<[tag |-> "raise", err |-> [kind |-> "TypeError", at |-> 0]]>>
                 ELSE <<[tag |-> "raise", err |-> last_exception[1]]>>
  /\ rpc' = "done"
  /\ UNCHANGED <<rtConfig, attempt, last_exception, trace, sleeps, log>>
  /\ UNCHANGED <<cbVars, xVars, appVars>>

\* the breaker at rest, for the retrier's specification
CBIdle ==
  /\ failure_threshold = 1
  /\ recovery_timeout = 0
  /\ failure_count = 0
  /\ last_failure_time = None
  /\ state = "CLOSED"
  /\ now = 0
  /\ pc = [c \in Callers |-> "idle"]
  /\ outcome = [c \in Callers |-> "none"]
  /\ calls = 0
  /\ gate = [c \in Callers |-> "none"]
  /\ invoked = 0
  /\ streak = 0

InitRetry == RTInit /\ CBIdle /\ log = <<>> /\ XIdle /\ AppIdle

NextRetry ==
  \/ RetryCall
  \/ \E v \in Values : AttemptReturns(v)
  \/ \E k \in RaisedKinds : AttemptRaises(k)
  \/ LoopExhausted

SpecRetry == InitRetry /\ [][NextRetry]_vars

\* ------------------------- the decorators stacked: breaker(retry(op))
\* func of the breaker's wrapper (line 71) is the retrier's wrapper, and func
\* of the retrier's wrapper (line 28) is the operation: the news fetch, with
\* the retryable errors of news.py line 100. Calls of the outer wrapper do not
\* overlap, so one caller makes them all. The log is kept per outer call.

StackCallers == {1}

\* what the operation may raise: a retryable error, an error that is not
\* retryable, and a BaseException that is no Exception
StackKinds == {"ConnectionError", "Exception", "KeyboardInterrupt"}

\* the error of line 68: a plain Exception that no attempt raised
RejectionError == [kind |-> "Exception", at |-> 0]

\* the gate of lines 64-68 turns the call away
Rejects == state = "OPEN" /\ ~should_attempt_reset

HandlerCatches_requests_only(k) == IsSubclass(k, "RequestException")

\* "except Exception" of cache.py line 139 and of scheduler.py line 63
HandlerCatches(k) == IsSubclass(k, "Exception")

\* the empty list
Empty == "[]"

\* what a caller that wraps the fetch in try / except Exception makes of its
\* outcome r (cached_fetch_news on a cache miss, cache.py lines 133-141; one
\* topic of send_daily_newsletters, scheduler.py lines 59-65): the value, an
\* empty result when the handler catches the error, and the error itself when
\* it does not
Handled(r) ==
  IF r.tag = "return" THEN [tag |-> "return", val |-> r.val]
  ELSE IF HandlerCatches(r.err.kind) THEN [tag |-> "return", val |-> Empty]
  ELSE [tag |-> "raise", val |-> r.err.kind]

\* the policies of a stack: a breaker, and a retrier that doubles its delay
StackInit ==
  /\ CBInit
  /\ max_attempts \in 1..MaxAttempts
  /\ base_delay = 1
  /\ max_delay = MaxMaxDelay
  /\ backoff_multiplier = 2
  /\ exceptions = {"RequestException"}
  /\ attempt = 0
  /\ last_exception = None
  /\ rpc = "idle"
  /\ result = None
  /\ trace = <<>>
  /\ sleeps = <<>>
  /\ log = <<>>
  /\ XIdle
  /\ AppIdle

\* a caller calls the outer wrapper: the breaker's gate, and behind it the
\* retrier's wrapper is entered; a rejected caller has its error at once
StackCall(c) ==
  /\ rpc = "idle"
  /\ BreakerEnter(c)
  /\ log' = <<>>
  /\ IF Rejects
       THEN /\ got' = <<[tag |-> "raise", err |-> RejectionError]>>
            /\ delivered' = <<Handled(got'[1])>>
            /\ UNCHANGED rtVars
       ELSE /\ got' = None
            /\ delivered' = None
            /\ RetryEnter
  /\ UNCHANGED <<loaded, op_invoked, appVars>>

\* the operation is invoked and returns v
StackAttemptReturns(v) ==
  /\ RetryReturn(v)
  /\ op_invoked' = op_invoked + 1
  /\ UNCHANGED <<cbVars, loaded, got, delivered, appVars>>

StackAttemptRaises_counted(k) ==
  /\ RetryExcept(k)
  /\ op_invoked' = op_invoked + 1
  /\ failure_count' = failure_count + 1
  /\ UNCHANGED <<failure_threshold, recovery_timeout, last_failure_time, state,
                 now, pc, outcome, calls, gate, invoked, streak>>
  /\ UNCHANGED <<loaded, got, delivered, appVars>>

\* the operation is invoked and raises an error of class k
StackAttemptRaises(k) ==
  /\ RetryExcept(k)
  /\ op_invoked' = op_invoked + 1
  /\ UNCHANGED <<cbVars, loaded, got, delivered, appVars>>

\* what the retrier's wrapper ended with is not touched by the breaker
retryLeft == <<rtConfig, attempt, last_exception, result, trace, sleeps>>

\* the retrier's wrapper returned a value: the breaker's lines 71-73
StackReturn(c) ==
  /\ rpc = "done"
  /\ result[1].tag = "return"
  /\ BreakerReturn(c)
  /\ got' = result
  /\ delivered' = <<Handled(result[1])>>
  /\ rpc' = "idle"
  /\ UNCHANGED <<retryLeft, loaded, op_invoked, appVars>>

StackExcept_swallowed(c) ==
  /\ rpc = "done"
  /\ result[1].tag = "raise"
  /\ IsSubclass(result[1].err.kind, "Exception")
  /\ BreakerExcept(c)
  /\ got' = <<[tag |-> "return", val |-> "None"]>>
  /\ delivered' = <<Handled(got'[1])>>
  /\ rpc' = "idle"
  /\ UNCHANGED <<retryLeft, loaded, op_invoked, appVars>>

\* the retrier's wrapper raised an Exception: the breaker's lines 74-76
StackExcept(c) ==
  /\ rpc = "done"
  /\ result[1].tag = "raise"
  /\ IsSubclass(result[1].err.kind, "Exception")
  /\ BreakerExcept(c)
  /\ got' = result
  /\ delivered' = <<Handled(result[1])>>
  /\ rpc' = "idle"
  /\ UNCHANGED <<retryLeft, loaded, op_invoked, appVars>>

\* the retrier's wrapper raised a BaseException that line 74 does not catch
StackEscape(c) ==
  /\ rpc = "done"
  /\ result[1].tag = "raise"
  /\ ~IsSubclass(result[1].err.kind, "Exception")
  /\ BreakerEscape(c)
  /\ got' = result
  /\ delivered' = <<Handled(result[1])>>
  /\ rpc' = "idle"
  /\ UNCHANGED <<retryLeft, loaded, op_invoked, appVars>>

\* time.time() advances between the calls and while the retrier runs, where
\* the breaker reads it next when the retrier has ended
StackTick ==
  /\ rpc \in {"idle", "done"}
  /\ Tick

\* the news fetch that cached_fetch_news calls (cache.py line 134) is not
\* defined in news.py: it is taken to be the stacked wrappers around the
\* remote operation, and to have ended as their outer call ended
fetch_news(o) == \E c \in StackCallers : pc[c] = "idle" /\ outcome[c] = o

NextStack ==
  \/ \E c \in StackCallers : StackCall(c)
  \/ \E v \in Values : StackAttemptReturns(v)
  \/ \E k \in StackKinds : StackAttemptRaises(k)
  \/ \E c \in StackCallers : StackReturn(c)
  \/ \E c \in StackCallers : StackExcept(c)
  \/ \E c \in StackCallers : StackEscape(c)
  \/ StackTick

SpecStack == StackInit /\ [][NextStack]_vars

\* --------------------------- CircuitBreaker, an operation that recovers
\* The operation is down for the first MaxCalls calls at most, and while there
\* is time left on the model's clock for recovery_timeout to elapse; after
\* that it only returns. Calls made once it has recovered are not counted.

OpRecovered == calls = MaxCalls

OpMayFail == ~OpRecovered /\ now + recovery_timeout <= MaxTime

\* wrapper up to the invocation of func, lines 64-71, once the operation has
\* recovered
LiveCall(c) ==
  /\ OpRecovered
  /\ \A d \in Callers : pc[d] = "idle"
  /\ IF state = "OPEN" /\ ~should_attempt_reset
       THEN Reject(c)
       ELSE /\ state' = IF state = "OPEN" THEN "HALF_OPEN" ELSE state
            /\ gate' = [gate EXCEPT ![c] = IF state = "OPEN" THEN "probe" ELSE "pass"]
            /\ pc' = [pc EXCEPT ![c] = "in_func"]
            /\ outcome' = [outcome EXCEPT ![c] = "pending"]
            /\ UNCHANGED <<failure_count, last_failure_time, invoked>>
  /\ UNCHANGED <<failure_threshold, recovery_timeout, now, calls, streak>>
  /\ UNCHANGED <<log, rtVars, xVars, appVars>>

LiveFuncRaises(c) == OpMayFail /\ FuncRaises(c)

LiveFuncInterrupted(c) == OpMayFail /\ FuncInterrupted(c)

NextLive ==
  \/ \E c \in StackCallers : Call(c)
  \/ \E c \in StackCallers : LiveCall(c)
  \/ \E c \in StackCallers : FuncReturns(c)
  \/ \E c \in StackCallers : LiveFuncRaises(c)
  \/ \E c \in StackCallers : LiveFuncInterrupted(c)
  \/ Tick

\* callers keep calling, func ends, and time advances
SpecLive ==
  /\ Init
  /\ [][NextLive]_vars
  /\ WF_vars(\E c \in StackCallers : Call(c))
  /\ WF_vars(\E c \in StackCallers : LiveCall(c))
  /\ WF_vars(\E c \in StackCallers : FuncReturns(c) \/ LiveFuncRaises(c) \/ LiveFuncInterrupted(c))
  /\ WF_vars(Tick)

\* ------------------------------ fetch_news_perplexity behind its retrier
\* news.py line 100 decorates the function with retry_with_backoff; its body
\* (lines 101-178) makes one remote request and handles what comes back.

NewsMaxAttempts == 3
NewsBaseDelay == 1
DefaultMaxDelay == 60
DefaultMultiplier == 2

\* publication dates of news items, and the replies of the remote service: a
\* JSON array of items, a JSON object, text that is no JSON, any other JSON
\* value, or an error raised by requests.post, raise_for_status or json()
NewsDates == 1..2
ItemLists == UNION {[1..n -> NewsDates] : n \in 0..MaxReplyItems}
Replies ==
  [kind : {"list", "text"}, items : ItemLists, err : {""}]
    \cup [kind : {"dict"}, items : {<<d>> : d \in NewsDates}, err : {""}]
    \cup [kind : {"scalar"}, items : {<<>>}, err : {""}]
    \cup [kind : {"raise"}, items : {<<>>}, err : RaisedKinds]

\* sorted(news_items, key=get_date_key, reverse=True), news.py line 29
RECURSIVE Insert(_, _)
Insert(d, l) ==
  IF l = <<>> THEN <<d>>
  ELSE IF d > l[1] THEN <<d>> \o l
  ELSE <<l[1]>> \o Insert(d, Tail(l))
RECURSIVE sort_news_by_date(_)
sort_news_by_date(l) ==
  IF l = <<>> THEN <<>> ELSE Insert(l[1], sort_news_by_date(Tail(l)))

\* l[:m]
Take(l, m) == SubSeq(l, 1, Min(m, Len(l)))

fetch_news_perplexity_lets_errors_out(r, m) ==
  CASE r.kind = "list" -> [tag |-> "return", val |-> Take(sort_news_by_date(r.items), m)]
    [] r.kind = "dict" -> [tag |-> "return", val |-> r.items]
    [] r.kind = "text" -> [tag |-> "return", val |-> Take(sort_news_by_date(r.items), m)]
    [] r.kind = "scalar" -> [tag |-> "return", val |-> <<>>]
    [] r.kind = "raise" -> [tag |-> "raise", val |-> r.err]

\* the body of fetch_news_perplexity for a reply r and max_items m: lines
\* 139-178. "except Exception" of line 175 turns every Exception into [].
fetch_news_perplexity(r, m) ==
  CASE r.kind = "list" -> [tag |-> "return", val |-> Take(sort_news_by_date(r.items), m)]
    [] r.kind = "dict" -> [tag |-> "return", val |-> r.items]
    [] r.kind = "text" -> [tag |-> "return", val |-> Take(sort_news_by_date(r.items), m)]
    [] r.kind = "scalar" -> [tag |-> "return", val |-> <<>>]
    [] r.kind = "raise" ->
         IF IsSubclass(r.err, "Exception")
           THEN [tag |-> "return", val |-> <<>>]
           ELSE [tag |-> "raise", val |-> r.err]

\* the decorator of news.py line 100
NewsInit ==
  /\ max_attempts = NewsMaxAttempts
  /\ base_delay = NewsBaseDelay
  /\ max_delay = DefaultMaxDelay
  /\ backoff_multiplier = DefaultMultiplier
  /\ exceptions = {"RequestException"}
  /\ attempt = 0
  /\ last_exception = None
  /\ rpc = "idle"
  /\ result = None
  /\ trace = <<>>
  /\ sleeps = <<>>
  /\ CBIdle
  /\ log = <<>>
  /\ XIdle
  /\ AppIdle

newsLeft == <<failure_threshold, recovery_timeout, failure_count, last_failure_time,
              state, now, pc, outcome, gate, invoked, streak, loaded, delivered,
              appVars>>

\* the decorated function is called
NewsCall ==
  /\ calls < MaxCalls
  /\ calls' = calls + 1
  /\ RetryEnter
  /\ log' = <<>>
  /\ UNCHANGED <<newsLeft, got, op_invoked>>

\* one pass of the retrier's loop: the body runs, makes its request and gets
\* the reply r
NewsAttempt(r, m) ==
  LET b == fetch_news_perplexity(r, m) IN
  /\ IF b.tag = "return" THEN RetryReturn(b.val) ELSE RetryExcept(b.val)
  /\ op_invoked' = op_invoked + 1
  /\ UNCHANGED <<newsLeft, calls, got>>

\* the retrier's wrapper hands its outcome to the caller
NewsEnds ==
  /\ rpc = "done"
  /\ rpc' = "idle"
  /\ got' = result
  /\ UNCHANGED <<retryLeft, log, newsLeft, calls, op_invoked>>

NextNews ==
  \/ NewsCall
  \/ \E r \in Replies, m \in 1..MaxItems : NewsAttempt(r, m)
  \/ NewsEnds

SpecNews == NewsInit /\ [][NextNews]_vars

\* ------------------------- the decorators stacked: retry(breaker(op))
\* func of the retrier's wrapper (line 28) is the breaker's wrapper, and func
\* of the breaker's wrapper (line 71) is the operation. What the breaker's
\* wrapper returns or raises is in got until the retrier's loop takes it.
\* Calls of the outer wrapper do not overlap; the log is kept per outer call.

\* the policies: the retrier's defaults of lines 12-16 but for max_attempts,
\* with a base delay of one tick
OuterInit ==
  /\ failure_threshold \in 1..MaxThreshold
  /\ recovery_timeout \in 0..MaxTime
  /\ failure_count = 0
  /\ last_failure_time = None
  /\ state = "CLOSED"
  /\ now = 0
  /\ pc = [c \in Callers |-> "idle"]
  /\ outcome = [c \in Callers |-> "none"]
  /\ calls = 0
  /\ gate = [c \in Callers |-> "none"]
  /\ invoked = 0
  /\ streak = 0
  /\ max_attempts \in 1..MaxAttempts
  /\ base_delay = 1
  /\ max_delay = MaxMaxDelay
  /\ backoff_multiplier = DefaultMultiplier
  /\ exceptions = {"Exception"}
  /\ attempt = 0
  /\ last_exception = None
  /\ rpc = "idle"
  /\ result = None
  /\ trace = <<>>
  /\ sleeps = <<>>
  /\ log = <<>>
  /\ XIdle
  /\ AppIdle

appLeft == <<cacheVars, rateVars, sheetVars>>

\* the retrier's wrapper is called: lines 23-26
OuterCall ==
  /\ RetryEnter
  /\ log' = <<>>
  /\ at_entry' = <<[state |-> state, failure_count |-> failure_count,
                    last_failure_time |-> last_failure_time, invoked |-> invoked,
                    op_invoked |-> op_invoked, now |-> now]>>
  /\ UNCHANGED <<cbVars, xVars, appLeft>>

\* line 28: the loop calls the breaker's wrapper, whose gate forwards the call
\* or raises the rejection
InnerCall(c) ==
  /\ rpc = "loop"
  /\ attempt < max_attempts
  /\ got = None
  /\ BreakerEnter(c)
  /\ got' = IF Rejects THEN <<[tag |-> "raise", kind |-> RejectionError.kind]>> ELSE None
  /\ UNCHANGED <<rtVars, log, loaded, op_invoked, delivered, appVars>>

\* the operation returns v: the breaker's lines 71-73
InnerReturns(c, v) ==
  /\ BreakerReturn(c)
  /\ got' = <<[tag |-> "return", val |-> v]>>
  /\ op_invoked' = op_invoked + 1
  /\ UNCHANGED <<rtVars, loaded, delivered, appVars>>

\* the operation raises an error of class k: the breaker's lines 74-76, or
\* for a BaseException that is no Exception no handler of the breaker at all
InnerRaises(c, k) ==
  /\ IF IsSubclass(k, "Exception") THEN BreakerExcept(c) ELSE BreakerEscape(c)
  /\ got' = <<[tag |-> "raise", kind |-> k]>>
  /\ op_invoked' = op_invoked + 1
  /\ UNCHANGED <<rtVars, loaded, delivered, appVars>>

\* the retrier's loop takes what the breaker's wrapper ended with: lines
\* 28-41; time.sleep(delay) of line 41 lets the clock advance by delay
OuterTakes ==
  /\ got # None
  /\ IF got[1].tag = "return" THEN RetryReturn(got[1].val) ELSE RetryExcept(got[1].kind)
  /\ now' = IF Len(sleeps') > Len(sleeps) THEN now + sleeps'[Len(sleeps')] ELSE now
  /\ got' = None
  /\ UNCHANGED <<failure_threshold, recovery_timeout, failure_count,
                 last_failure_time, state, pc, outcome, calls, gate, invoked, streak>>
  /\ UNCHANGED <<loaded, op_invoked, delivered, appVars>>

\* the retrier's wrapper hands its outcome to the caller
OuterEnds ==
  /\ rpc = "done"
  /\ rpc' = "idle"
  /\ delivered' = result
  /\ UNCHANGED <<retryLeft, log, cbVars, loaded, got, op_invoked, appVars>>

NextOuter ==
  \/ OuterCall
  \/ \E c \in StackCallers : InnerCall(c)
  \/ \E c \in StackCallers, v \in Values : InnerReturns(c, v)
  \/ \E c \in StackCallers, k \in StackKinds : InnerRaises(c, k)
  \/ OuterTakes
  \/ OuterEnds
  \/ StackTick

SpecOuter == OuterInit /\ [][NextOuter]_vars

\* ------------------------------------------------------ simple_rate_limit
\* The routes decorated in app.py, /verify (line 234) and /manage-verify
\* (line 394), carry the same max_requests and window_seconds, and all
\* decorated routes share _rate_limit_storage, keyed by the client's address.
\* time.time() is now. handled[i] holds, as an observer, the times at which a
\* route's handler was invoked for client i.

Routes == {"verify", "manage_verify"}

\* a dict: d.get(k, default), and d[k] = v
Get(d, k, default) == IF k \in DOMAIN d THEN d[k] ELSE default
Put(d, k, v) == [x \in DOMAIN d \cup {k} |-> IF x = k THEN v ELSE d[x]]

RateInit ==
  /\ max_requests \in 1..MaxRequests
  /\ window_seconds \in 1..MaxWindow
  /\ _rate_limit_storage = <<>>
  /\ response = None
  /\ handled = [i \in IPs |-> <<>>]
  /\ CBIdle /\ RTIdle /\ log = <<>> /\ XIdle
  /\ CacheIdle /\ SheetIdle /\ at_entry = None

\* lines 83-86: the timestamps later than the cutoff
Fresh(ts, t) == SelectSeq(ts, LAMBDA x : x > t - window_seconds)

\* line 91
OverLimit_late(n) == n > max_requests
OverLimit(n) == n >= max_requests

\* lines 78-102, for a request of client i to route r
decorated_function(r, i) ==
  LET cleaned == Fresh(Get(_rate_limit_storage, i, <<>>), now) IN
  /\ IF OverLimit(Len(cleaned))
       THEN /\ _rate_limit_storage' = Put(_rate_limit_storage, i, cleaned)
            /\ response' = <<[route |-> r, ip |-> i, status |-> 429]>>
            /\ UNCHANGED handled
       ELSE /\ _rate_limit_storage' = Put(_rate_limit_storage, i, Append(cleaned, now))
            /\ response' = <<[route |-> r, ip |-> i, status |-> 200]>>
            /\ handled' = [handled EXCEPT ![i] = Append(@, now)]
  /\ UNCHANGED <<max_requests, window_seconds>>
  /\ UNCHANGED <<cbVars, rtVars, log, xVars, cacheVars, sheetVars, at_entry>>

\* time passes, for as long as it takes a timestamp to leave the longest window
RateTick == now < MaxWindow /\ Tick

NextRate ==
  \/ \E r \in Routes, i \in IPs : decorated_function(r, i)
  \/ RateTick

SpecRate == RateInit /\ [][NextRate]_vars

\* ------------------------------------------------------------ SimpleCache
\* _cache and _timestamps are the two dicts of lines 16-17; time.time() is
\* now. last_set[k] holds, as an observer, the latest set of key k: its value,
\* its time, its ttl, and whether delete(k) or clear() was called since.
\* cache_ret is what the latest get returned, and for which key.

Keys == {"news:ai", "news:tech"}
CacheValues == {"v1", "v2"}

CacheInit ==
  /\ _cache = <<>>
  /\ _timestamps = <<>>
  /\ last_set = <<>>
  /\ cache_ret = None
  /\ CBIdle /\ RTIdle /\ log = <<>> /\ XIdle
  /\ RateIdle /\ SheetIdle /\ at_entry = None

\* dict.pop(k, None)
Pop(d, k) == [x \in DOMAIN d \ {k} |-> d[x]]

cacheLeft == <<cbVars, rtVars, log, xVars, rateVars, sheetVars, at_entry>>

\* line 26
Expired_on_time(k) == now >= _timestamps[k]
Expired(k) == now > _timestamps[k]

\* lines 19-30
get(k) ==
  /\ IF k \notin DOMAIN _cache
       THEN /\ cache_ret' = <<[key |-> k, ret |-> None]>>
            /\ UNCHANGED <<_cache, _timestamps>>
       ELSE IF k \in DOMAIN _timestamps /\ Expired(k)
         THEN /\ _cache' = Pop(_cache, k)
              /\ _timestamps' = Pop(_timestamps, k)
              /\ cache_ret' = <<[key |-> k, ret |-> None]>>
         ELSE /\ cache_ret' = <<[key |-> k, ret |-> <<_cache[k]>>]>>
              /\ UNCHANGED <<_cache, _timestamps>>
  /\ UNCHANGED <<last_set, cacheLeft>>

\* lines 32-35
set(k, v, ttl_seconds) ==
  /\ _cache' = Put(_cache, k, v)
  /\ _timestamps' = Put(_timestamps, k, now + ttl_seconds)
  /\ last_set' = Put(last_set, k, [value |-> v, at |-> now, ttl |-> ttl_seconds,
                                   live |-> TRUE])
  /\ UNCHANGED <<cache_ret, cacheLeft>>

\* lines 37-40
delete(k) ==
  /\ _cache' = Pop(_cache, k)
  /\ _timestamps' = Pop(_timestamps, k)
  /\ last_set' = [x \in DOMAIN last_set |->
                    IF x = k THEN [last_set[x] EXCEPT !.live = FALSE] ELSE last_set[x]]
  /\ UNCHANGED <<cache_ret, cacheLeft>>

\* lines 42-45
clear ==
  /\ _cache' = <<>>
  /\ _timestamps' = <<>>
  /\ last_set' = [x \in DOMAIN last_set |-> [last_set[x] EXCEPT !.live = FALSE]]
  /\ UNCHANGED <<cache_ret, cacheLeft>>

\* time passes, for as long as it takes the longest ttl to run out
CacheTick == now <= MaxTtl /\ Tick

NextCache ==
  \/ \E k \in Keys : get(k)
  \/ \E k \in Keys, v \in CacheValues, ttl_seconds \in 0..MaxTtl : set(k, v, ttl_seconds)
  \/ \E k \in Keys : delete(k)
  \/ clear
  \/ CacheTick

SpecCache == CacheInit /\ [][NextCache]_vars

\* ------------------------------------------------- the subscribers' sheet
\* A row is one subscriber: the columns of DESIRED_HEADERS, of the topic
\* columns one. The empty cell is "" for text and None for a time; an ISO
\* time is the clock's value. The routes of app.py are the actions, each with
\* the function of sheets.py it calls; calls of the sheet do not overlap and
\* the sheet's service does not fail.

\* addresses as the forms deliver them, already stripped (app.py:174, 239,
\* 253, 293, 316, 397); two of them differ in case only
Emails == {"a@x.io", "A@x.io", "b@x.io"}
\* str.lower
Lower(e) == IF e = "A@x.io" THEN "a@x.io" ELSE e
\* the codes generate_secure_otp hands out: six digits (utils.py:106-112)
Codes == {"111111", "222222"}
\* what a form's otp field may hold
RawCodes == {"111111", " 222222 ", ""}
\* str.strip
Strip(text) == IF text = " 222222 " THEN "222222" ELSE text
\* utils.py:40-53: strip, cut to 255 characters, drop tags
sanitize_input(text) == IF text = "" THEN "" ELSE Strip(text)
\* utils.py:114-122: exactly six digits
validate_otp_format(otp) == otp \in Codes
\* timedelta(minutes=10) of app.py:203, 242, 299, 331; the clock of this
\* specification ticks every ten minutes
OtpLifetime == 1
\* the values of a topic's column chosen in a form
Chosen == {"TRUE", "FALSE"}

\* sheets.py:105-114: the first row of the address, 0 for None
_find_row_by_email(e) ==
  LET hits == {i \in DOMAIN sheet : Lower(Strip(sheet[i].Email)) = Lower(Strip(e))} IN
  IF hits = {} THEN 0 ELSE CHOOSE i \in hits : \A j \in hits : i <= j

\* sheets.py:126-128
is_verified(e) ==
  /\ _find_row_by_email(e) # 0
  /\ sheet[_find_row_by_email(e)].Verified = "TRUE"

\* sheets.py:130-154: the sheet afterwards
set_pending_subscription(e, tech, otp_code, otp_expires) ==
  LET row_dict == [Email |-> e, Technology |-> tech, Max_items |-> "3",
                   Timestamp |-> <<now>>, Verified |-> "FALSE",
                   OTP_Code |-> otp_code, OTP_Expires |-> <<otp_expires>>]
      row_idx == _find_row_by_email(e) IN
  IF row_idx # 0 THEN [sheet EXCEPT ![row_idx] = row_dict]
  ELSE Append(sheet, row_dict)

\* sheets.py:214-217
fresh_otp_keeps_verified(record, otp_code, otp_expires) ==
  [record EXCEPT !.OTP_Code = otp_code, !.OTP_Expires = <<otp_expires>>,
                 !.Timestamp = <<now>>]
fresh_otp(record, otp_code, otp_expires) ==
  [record EXCEPT !.Verified = "FALSE", !.OTP_Code = otp_code,
                 !.OTP_Expires = <<otp_expires>>, !.Timestamp = <<now>>]

\* sheets.py:205-230: the sheet afterwards
set_otp(e, otp_code, otp_expires) ==
  LET row_idx == _find_row_by_email(e) IN
  IF row_idx # 0
    THEN [sheet EXCEPT ![row_idx] = fresh_otp(sheet[row_idx], otp_code, otp_expires)]
    ELSE Append(sheet, [Email |-> e, Technology |-> "", Max_items |-> "",
                        Timestamp |-> <<now>>, Verified |-> "FALSE",
                        OTP_Code |-> otp_code, OTP_Expires |-> <<otp_expires>>])

\* sheets.py:180-183
mark_verified_keeps_code(record) == [record EXCEPT !.Verified = "TRUE"]
mark_verified(record) ==
  [record EXCEPT !.Verified = "TRUE", !.OTP_Code = "", !.OTP_Expires = None]

\* sheets.py:156-186: what it returns, and the sheet afterwards.
\* datetime.fromisoformat raises on the empty cell, and line 177 returns False.
verify_otp(e, otp_code) ==
  LET row_idx == _find_row_by_email(e)
      failed == [ok |-> FALSE, sheet |-> sheet] IN
  IF row_idx = 0 THEN failed
  ELSE IF Strip(sheet[row_idx].OTP_Code) # Strip(otp_code) THEN failed
  ELSE IF sheet[row_idx].OTP_Expires = None THEN failed
  ELSE IF sheet[row_idx].OTP_Expires[1] < now THEN failed
  ELSE [ok |-> TRUE, sheet |-> [sheet EXCEPT ![row_idx] = mark_verified(@)]]

\* sheets.py:188-203: the sheet afterwards
update_preferences(e, tech) ==
  LET row_idx == _find_row_by_email(e) IN
  IF row_idx = 0 THEN sheet
  ELSE [sheet EXCEPT ![row_idx] = [@ EXCEPT !.Technology = tech, !.Max_items = "3"]]

\* sheets.py:232-255: the sheet afterwards
unsubscribe_user(e) ==
  LET row_idx == _find_row_by_email(e) IN
  IF row_idx = 0 THEN sheet
  ELSE [i \in 1..(Len(sheet) - 1) |-> IF i < row_idx THEN sheet[i] ELSE sheet[i + 1]]

SheetInit ==
  /\ sheet = <<>>
  /\ otp_ret = None
  /\ CBIdle /\ RTIdle /\ log = <<>> /\ XIdle
  /\ CacheIdle /\ RateIdle /\ at_entry = None

sheetLeft == <<cbVars, rtVars, log, xVars, cacheVars, rateVars, at_entry>>

\* POST /subscribe, app.py:170-223
subscribe(e, tech) ==
  /\ ~is_verified(e)
  /\ \E otp_code \in Codes :
       sheet' = set_pending_subscription(e, tech, otp_code, now + OtpLifetime)
  /\ UNCHANGED <<otp_ret, sheetLeft>>

\* GET /verify?email=, app.py:236-249
verify_get(e) ==
  /\ \E otp_code \in Codes : sheet' = set_otp(e, otp_code, now + OtpLifetime)
  /\ UNCHANGED <<otp_ret, sheetLeft>>

\* POST /resend-otp, app.py:291-306
resend_otp(e) ==
  /\ \E otp_code \in Codes : sheet' = set_otp(e, otp_code, now + OtpLifetime)
  /\ UNCHANGED <<otp_ret, sheetLeft>>

\* POST /manage with action verify_email, app.py:314-343
manage_verify_email(e) ==
  /\ is_verified(e)
  /\ \E otp_code \in Codes : sheet' = set_otp(e, otp_code, now + OtpLifetime)
  /\ UNCHANGED <<otp_ret, sheetLeft>>

\* app.py:254-265 and 403-410: the form's code is sanitized and its format
\* checked before verify_otp is called
checked_otp(e, raw) ==
  LET otp == sanitize_input(raw) IN
  IF ~validate_otp_format(otp)
    THEN /\ otp_ret' = None
         /\ UNCHANGED sheet
    ELSE /\ otp_ret' = <<[email |-> e, code |-> otp, ok |-> verify_otp(e, otp).ok]>>
         /\ sheet' = verify_otp(e, otp).sheet

\* POST /verify, app.py:251-285
verify(e, raw) ==
  /\ checked_otp(e, raw)
  /\ UNCHANGED sheetLeft

\* POST /manage-verify, app.py:393-424
manage_verify(e, raw) ==
  /\ checked_otp(e, raw)
  /\ UNCHANGED sheetLeft

\* POST /manage with the preferences, app.py:345-368
manage(e, tech) ==
  /\ sheet' = update_preferences(e, tech)
  /\ UNCHANGED <<otp_ret, sheetLeft>>

\* POST /unsubscribe with action delete, app.py:448-474
unsubscribe(e) ==
  /\ sheet' = unsubscribe_user(e)
  /\ UNCHANGED <<otp_ret, sheetLeft>>

\* time passes, until every code handed out at the start has expired
SheetTick == now <= OtpLifetime /\ Tick

NextSheet ==
  \/ \E e \in Emails, tech \in Chosen : subscribe(e, tech)
  \/ \E e \in Emails : verify_get(e)
  \/ \E e \in Emails : resend_otp(e)
  \/ \E e \in Emails : manage_verify_email(e)
  \/ \E e \in Emails, raw \in RawCodes : verify(e, raw)
  \/ \E e \in Emails, raw \in RawCodes : manage_verify(e, raw)
  \/ \E e \in Emails, tech \in Chosen : manage(e, tech)
  \/ \E e \in Emails : unsubscribe(e)
  \/ SheetTick

SpecSheet == SheetInit /\ [][NextSheet]_vars

\* --------------------------------------------- steps, as the claims see them

\* a step in which some caller calls the wrapper
CallStep == calls' = calls + 1
\* ... and the call is rejected at line 68: func is not invoked, nobody enters it
RejectedStep ==
  /\ CallStep
  /\ invoked' = invoked
  /\ pc' = pc
  /\ \E c \in Callers : outcome'[c] = "rejected"
\* ... and the call is forwarded to func
ForwardedStep ==
  /\ CallStep
  /\ invoked' = invoked + 1
  /\ \E c \in Callers : pc[c] = "idle" /\ pc'[c] = "in_func"
\* a step in which the forwarded call of some caller ends with func's return / raise
ReturnStep == \E c \in Callers : outcome[c] = "pending" /\ outcome'[c] = "returned"
RaiseStep == \E c \in Callers : outcome[c] = "pending" /\ outcome'[c] = "raised"
\* OPEN, and less than recovery_timeout since the last failure
TimerRunning ==
  /\ last_failure_time # None
  /\ now - last_failure_time[1] < recovery_timeout

\* ------------------------------------------------------------------ claims

\* C1: from failure_count = 0, once failure_threshold consecutive forwarded calls
\* have failed the breaker is OPEN, and a call made while recovery_timeout has
\* not elapsed is rejected without func being invoked.
C1_OpenAfterThreshold ==
  /\ [](Idle /\ streak >= failure_threshold => state = "OPEN")
  /\ [][(CallStep /\ streak >= failure_threshold /\ TimerRunning) => RejectedStep]_vars

C1_Witness ==
  /\ failure_threshold = 3
  /\ streak = 3
  /\ invoked = 3
  /\ calls = 4
  /\ state = "OPEN"
  /\ \E c \in Callers : outcome[c] = "rejected"

\* C2: a call rejected because the breaker is OPEN and the timer is running
\* changes none of state, failure_count, last_failure_time, and does not
\* invoke func.
C2_RejectionHasNoEffect ==
  [][(CallStep /\ state = "OPEN" /\ TimerRunning) =>
       /\ RejectedStep
       /\ UNCHANGED <<state, failure_count, last_failure_time, invoked>>]_vars

C2_Witness ==
  /\ failure_threshold = 3
  /\ failure_count = 3
  /\ state = "OPEN"
  /\ calls = 4
  /\ \E c \in Callers : outcome[c] = "rejected" /\ gate[c] = "reject"

\* C3: a call arriving while OPEN is forwarded, with the state moved to
\* HALF_OPEN, exactly when now - last_failure_time >= recovery_timeout; any
\* earlier call is not forwarded.
C3_ProbeAtTimeout ==
  [][(CallStep /\ state = "OPEN" /\ last_failure_time # None) =>
       IF now - last_failure_time[1] >= recovery_timeout
         THEN ForwardedStep /\ state' = "HALF_OPEN"
         ELSE ~ForwardedStep /\ invoked' = invoked /\ state' = "OPEN"]_vars

\* the probe is let in at the boundary, after an earlier call was turned away
C3_Witness ==
  /\ state = "HALF_OPEN"
  /\ recovery_timeout > 0
  /\ now - last_failure_time[1] = recovery_timeout
  /\ \E c \in Callers : gate[c] = "probe" /\ pc[c] = "in_func"
  /\ \E c \in Callers : gate[c] = "reject"

\* C4: a HALF_OPEN probe that succeeds leaves the breaker CLOSED with
\* failure_count = 0, and calls made while CLOSED are forwarded.
C4_ProbeSuccessCloses ==
  [][/\ (state = "HALF_OPEN" /\ ReturnStep) => (state' = "CLOSED" /\ failure_count' = 0)
     /\ (CallStep /\ state = "CLOSED" /\ failure_count = 0) => ForwardedStep]_vars

\* the probe succeeded and the next call went through
C4_Witness ==
  /\ state = "CLOSED"
  /\ failure_count = 0
  /\ \E c, d \in Callers :
       /\ c # d
       /\ gate[c] = "probe" /\ outcome[c] = "returned"
       /\ gate[d] = "pass" /\ pc[d] = "in_func"

\* C5: a HALF_OPEN probe that fails adds 1 to failure_count, sets
\* last_failure_time to the time of the failure and returns to OPEN; calls
\* less than recovery_timeout after that are rejected.
C5_ProbeFailureReopens ==
  [][/\ (state = "HALF_OPEN" /\ RaiseStep) =>
          /\ failure_count' = failure_count + 1
          /\ last_failure_time' = <<now>>
          /\ state' = "OPEN"
     /\ (CallStep /\ state = "OPEN" /\ failure_count > failure_threshold /\ TimerRunning)
          => RejectedStep]_vars

\* a call is rejected after the failed probe, at a time at which it would have
\* been let in had the timer not restarted
C5_Witness ==
  /\ state = "OPEN"
  /\ failure_count = failure_threshold + 1
  /\ TimerRunning
  /\ last_failure_time[1] > 0
  /\ now >= recovery_timeout + 1
  /\ \E c, d \in Callers :
       /\ gate[c] = "probe" /\ outcome[c] = "raised"
       /\ gate[d] = "reject" /\ outcome[d] = "rejected"

\* the error of attempt i is of a retryable kind: an instance of a class of the
\* exceptions tuple
Attempts == 1..Len(trace)
FailedRetryably(i) ==
  /\ trace[i].tag = "err"
  /\ \E cls \in exceptions : IsSubclass(trace[i].x, cls)
FailedOtherwise(i) ==
  /\ trace[i].tag = "err"
  /\ \A cls \in exceptions : ~IsSubclass(trace[i].x, cls)
Raised(k, i) ==
  /\ rpc = "done"
  /\ result # None
  /\ result[1].tag = "raise"
  /\ result[1].err = [kind |-> k, at |-> i]
Returned(v) ==
  /\ rpc = "done"
  /\ result # None
  /\ result[1].tag = "return"
  /\ result[1].val = v

\* C6: with max_attempts = N >= 1, a call whose every attempt fails retryably
\* invokes func N times and sleeps N-1 times, the i-th sleep (from 0) being
\* min(base_delay * backoff_multiplier^i, max_delay), never above max_delay.
C6_ExhaustedRetries ==
  (rpc = "done" /\ max_attempts >= 1 /\ \A i \in Attempts : FailedRetryably(i)) =>
     /\ Len(trace) = max_attempts
     /\ Len(sleeps) = max_attempts - 1
     /\ \A i \in 0..(max_attempts - 2) :
          /\ sleeps[i + 1] = Min(base_delay * Pow(backoff_multiplier, i), max_delay)
          /\ sleeps[i + 1] <= max_delay

\* three failed attempts, the second delay cut to max_delay
C6_Witness ==
  /\ rpc = "done"
  /\ max_attempts = 3
  /\ Len(trace) = 3
  /\ \A i \in Attempts : FailedRetryably(i)
  /\ base_delay = 2 /\ backoff_multiplier = 3 /\ max_delay = 5
  /\ sleeps = <<2, 5>>

\* C7: when attempts 1..k-1 fail retryably and attempt k succeeds, func has been
\* invoked k times (k <= max_attempts), the call returns the value of attempt k,
\* and neither an attempt nor a sleep follows the success.
C7_SuccessOnAttemptK ==
  \A k \in Attempts :
    (trace[k].tag = "ok" /\ \A j \in 1..(k - 1) : FailedRetryably(j)) =>
       /\ Len(trace) = k
       /\ k <= max_attempts
       /\ Returned(trace[k].x)
       /\ Len(sleeps) = k - 1

C7_Witness ==
  /\ Len(trace) = 3
  /\ FailedRetryably(1) /\ FailedRetryably(2)
  /\ trace[3] = [tag |-> "ok", x |-> "v2"]
  /\ Returned("v2")
  /\ Len(sleeps) = 2

\* C8: an error of a kind that is not retryable, on whichever attempt i, is
\* propagated at once: no invocation and no sleep follows it, so that on the
\* first attempt func is invoked exactly once.
C8_NonRetryablePropagates ==
  \A i \in Attempts :
    FailedOtherwise(i) =>
       /\ Len(trace) = i
       /\ Raised(trace[i].x, i)
       /\ Len(sleeps) = i - 1

\* a ValueError on the second attempt, after a retried ConnectionError
C8_Witness ==
  /\ exceptions = {"RequestException"}
  /\ max_attempts = 3
  /\ Len(trace) = 2
  /\ trace[1].x = "ConnectionError" /\ FailedRetryably(1)
  /\ trace[2].x = "ValueError" /\ FailedOtherwise(2)
  /\ Raised("ValueError", 2)
  /\ Len(sleeps) = 1

\* C9: a retryable failure on the final attempt (attempt index max_attempts - 1)
\* is re-raised as that attempt's own error, and no sleep follows it.
C9_LastErrorReraised ==
  (max_attempts >= 1 /\ Len(trace) = max_attempts /\ FailedRetryably(max_attempts)) =>
     /\ Raised(trace[max_attempts].x, max_attempts)
     /\ last_exception = <<[kind |-> trace[max_attempts].x, at |-> max_attempts]>>
     /\ Len(sleeps) = max_attempts - 1

\* the last attempt's error differs in class from the one before
C9_Witness ==
  /\ max_attempts = 3
  /\ Len(trace) = 3
  /\ trace[2].x = "ConnectionError"
  /\ trace[3].x = "RequestException"
  /\ Raised("RequestException", 3)
  /\ sleeps # <<>>

\* C10: between non-overlapping calls and time advances, OPEN implies
\* failure_count >= failure_threshold and last_failure_time is set.
C10_OpenInvariant ==
  state = "OPEN" => (failure_count >= failure_threshold /\ last_failure_time # None)

C10_Witness ==
  /\ state = "OPEN"
  /\ Idle
  /\ failure_threshold > 1
  /\ failure_count > failure_threshold
  /\ \E c \in Callers : outcome[c] = "rejected"
\* C11: between non-overlapping calls and time advances, CLOSED implies
\* failure_count < failure_threshold.
C11_ClosedInvariant ==
  state = "CLOSED" => failure_count < failure_threshold

\* CLOSED with failures counted, one short of the threshold
C11_Witness ==
  /\ state = "CLOSED"
  /\ Idle
  /\ failure_threshold = 3
  /\ failure_count = 2
  /\ streak = 2
\* C17: when a forwarded call propagates func's error, the breaker already
\* holds that failure: in the step that hands the error to the caller,
\* failure_count has grown by 1, last_failure_time is the time of the failure,
\* and state is OPEN if the threshold is reached.
C17_UpdatedBeforeRaise ==
  [][RaiseStep =>
       /\ failure_count' = failure_count + 1
       /\ last_failure_time' = <<now>>
       /\ (failure_count' >= failure_threshold => state' = "OPEN")]_vars

\* the caller has the error of the call that reached the threshold
C17_Witness ==
  /\ \E c \in Callers : outcome[c] = "raised" /\ gate[c] = "pass"
  /\ failure_threshold = 2
  /\ failure_count = 2
  /\ streak = 2
  /\ last_failure_time = <<now>>
  /\ now > 0
  /\ state = "OPEN"

\* C19 as stated: every attempt, whatever its end, has its log event, which
\* carries the attempt number, the total number of attempts and the delay.
C19_EveryAttemptLogged ==
  /\ Len(log) = Len(trace)
  /\ \A i \in Attempts :
       /\ {"attempt", "of", "delay"} \subseteq DOMAIN log[i]
       /\ log[i].attempt = i
       /\ log[i].of = max_attempts

\* C19 as amended: the attempts that fail retryably are the ones logged, one
\* event each: before the final attempt a warning with the attempt number, the
\* total and the delay slept; on the final attempt an error with the total and
\* no delay. An attempt that returns, or fails otherwise, logs nothing.
C19_RetryableFailuresLogged ==
  max_attempts >= 1 =>
    /\ Len(log) = Cardinality({i \in Attempts : FailedRetryably(i)})
    /\ \A i \in Attempts :
         FailedRetryably(i) =>
           /\ i <= Len(log)
           /\ log[i] = IF i < max_attempts
                         THEN [level |-> "warning", msg |-> "retrying", attempt |-> i,
                               of |-> max_attempts,
                               err |-> [kind |-> trace[i].x, at |-> i],
                               delay |-> sleeps[i]]
                         ELSE [level |-> "error", msg |-> "failed", of |-> max_attempts,
                               err |-> [kind |-> trace[i].x, at |-> i]]

\* two warnings and the final error
C19_Witness ==
  /\ rpc = "done"
  /\ max_attempts = 3
  /\ Len(trace) = 3
  /\ \A i \in Attempts : FailedRetryably(i)
  /\ Len(log) = 3
  /\ log[1].level = "warning" /\ log[1].delay = 1
  /\ log[2].level = "warning" /\ log[2].delay = 2
  /\ log[3].level = "error"

\* C20 as stated: every change of the breaker's state emits a log event.
C20_TransitionsLogged ==
  [][state' # state => Len(log') = Len(log) + 1]_vars

\* C20 as amended: a change of state into OPEN emits one warning, which carries
\* the failure count; the changes OPEN -> HALF_OPEN and HALF_OPEN -> CLOSED emit
\* nothing.
C20_OnlyOpeningLogged ==
  [][state' # state =>
       IF state' = "OPEN"
         THEN log' = Append(log, [level |-> "warning", msg |-> "opened",
                                  failures |-> failure_count'])
         ELSE log' = log]_vars

\* opened (logged), probed and closed again (nothing logged)
C20_Witness ==
  /\ state = "CLOSED"
  /\ Len(log) = 1
  /\ log[1].msg = "opened"
  /\ \E c \in Callers : gate[c] = "probe" /\ outcome[c] = "returned"
\* C12: failure increments are not lost when calls overlap: once every call
\* has ended, if all the calls forwarded so far have failed, failure_count is
\* their number.
C12_NoLostIncrement ==
  (Idle /\ streak = invoked) => failure_count = streak

\* C13: from the change OPEN -> HALF_OPEN until the outcome of that probe is
\* recorded, no other call is forwarded to func.
ProbeInFlight == \E c \in Callers : gate[c] = "probe" /\ pc[c] # "idle"
C13_SingleProbe ==
  [][ProbeInFlight => invoked' = invoked]_vars
\* the outer call of the stack has ended, and how
StackEnded(o) == \E c \in StackCallers : pc[c] = "idle" /\ outcome[c] = o
LastAttempt == trace[Len(trace)]
AllAttemptsFailed ==
  /\ Len(trace) = max_attempts
  /\ \A i \in Attempts : trace[i].tag = "err"

\* C14: the error of a call rejected while OPEN is of a kind that no error of
\* the wrapped operation has: it differs in kind from the error in which the
\* last forwarded call ended.
C14_RejectionDistinct ==
  (StackEnded("rejected") /\ result # None /\ result[1].tag = "raise")
    => got[1].err.kind # result[1].err.kind

\* C15: with the breaker around the retrier, an outer call in which the
\* operation fails on all max_attempts attempts raises failure_count by 1; so
\* when every forwarded outer call so far has failed on all its attempts,
\* failure_count is the number of outer calls and the breaker is OPEN exactly
\* from failure_threshold outer calls on, that is failure_threshold *
\* max_attempts invocations of the operation.
C15_EveryOuterCallFailed ==
  /\ \A c \in StackCallers : pc[c] = "idle"
  /\ streak = invoked
  /\ op_invoked = invoked * max_attempts
C15_OneFailurePerOuterCall ==
  /\ [](C15_EveryOuterCallFailed =>
          /\ failure_count = invoked
          /\ state = "OPEN" <=> invoked >= failure_threshold)
  /\ [][(RaiseStep /\ AllAttemptsFailed) => failure_count' = failure_count + 1]_vars
C15_Witness ==
  /\ C15_EveryOuterCallFailed
  /\ max_attempts >= 2
  /\ failure_threshold >= 2
  /\ invoked = failure_threshold
  /\ op_invoked = failure_threshold * max_attempts
  /\ state = "OPEN"

\* C16: a call through the stacked wrappers that has ended has handed its
\* caller one outcome: the rejection error when the gate turned it away, and
\* otherwise the value the last attempt returned or the very error the last
\* attempt raised; an error of the last attempt is never a return.
C16_ValueOrOneError ==
  /\ StackEnded("rejected") => got = <<[tag |-> "raise", err |-> RejectionError]>>
  /\ (StackEnded("returned") \/ StackEnded("raised") \/ StackEnded("interrupted")) =>
       /\ Len(got) = 1
       /\ Len(trace) >= 1
       /\ \/ /\ LastAttempt.tag = "ok"
             /\ got[1] = [tag |-> "return", val |-> LastAttempt.x]
          \/ /\ LastAttempt.tag = "err"
             /\ got[1] = [tag |-> "raise",
                          err |-> [kind |-> LastAttempt.x, at |-> Len(trace)]]
C16_Witness ==
  /\ StackEnded("raised")
  /\ Len(trace) = 3
  /\ trace[2].tag = "err"
  /\ got[1] = [tag |-> "raise", err |-> [kind |-> "ConnectionError", at |-> 3]]

\* C18: when the news fetch ends with its retries exhausted (every one of the
\* max_attempts attempts raised a retryable error) or with the circuit open
\* (the call was rejected), its caller ends with an empty result, not an error.
RetriesExhausted ==
  /\ fetch_news("raised")
  /\ AllAttemptsFailed
  /\ \A i \in Attempts : FailedRetryably(i)
C21_CountsFailuresSinceSuccess ==
  /\ failure_count = 0
  /\ [](failure_count >= 0)
  /\ [][/\ ReturnStep => failure_count' = 0
        /\ RaiseStep => failure_count' = failure_count + 1
        /\ ~(ReturnStep \/ RaiseStep) => failure_count' = failure_count]_vars
C21_Witness ==
  /\ Idle
  /\ failure_count = 2
  /\ outcome[1] = "rejected"
  /\ outcome[2] = "raised"
\* C22: the state changes only along CLOSED -> OPEN, OPEN -> HALF_OPEN,
\* HALF_OPEN -> CLOSED and HALF_OPEN -> OPEN, also when calls overlap.
FsmTransitions ==
  {<<"CLOSED", "OPEN">>, <<"OPEN", "HALF_OPEN">>,
   <<"HALF_OPEN", "CLOSED">>, <<"HALF_OPEN", "OPEN">>}
C22_OnlyFsmTransitions ==
  [][state' # state => <<state, state'>> \in FsmTransitions]_vars

\* C23: with overlapping calls, whenever the state is OPEN failure_count is at
\* least failure_threshold.
C23_OpenImpliesThresholdConc ==
  state = "OPEN" => failure_count >= failure_threshold
\* C26: a call of the decorated fetch_news_perplexity runs the body once,
\* whatever the request does: when the request returns or raises an
\* Exception, the one attempt returns a list, nothing is retried, slept or
\* logged by the retrier, and the caller gets that list; the body has run
\* once for every call made.
IsList(v) == v \in Seq(NewsDates) /\ Len(v) <= MaxReplyItems
C26_BodyRunsOnce ==
  /\ rpc \in {"idle", "done"} => op_invoked = calls
  /\ rpc = "done" =>
       /\ Len(trace) = 1
       /\ sleeps = <<>>
       /\ log = <<>>
       /\ \/ /\ trace[1].tag = "ok"
             /\ result[1].tag = "return"
             /\ IsList(result[1].val)
          \/ /\ trace[1].tag = "err"
             /\ ~IsSubclass(trace[1].x, "Exception")
C26_Witness ==
  /\ rpc = "done"
  /\ calls = 2
  /\ op_invoked = 2
  /\ got # None
  /\ got[1].tag = "return"
  /\ got[1].val = <<2, 1>>
  /\ result = <<[tag |-> "return", val |-> <<>>]>>
\* C24: OPEN is not absorbing: when callers keep calling, time advances and
\* the operation has recovered, an OPEN breaker gets to CLOSED with
\* failure_count = 0.
C24_OpenLeadsToClosed ==
  state = "OPEN" ~> (state = "CLOSED" /\ failure_count = 0)
C24_Witness ==
  /\ OpRecovered
  /\ state = "CLOSED"
  /\ failure_count = 0
  /\ last_failure_time # None
  /\ \E c \in StackCallers :
       /\ gate[c] = "probe"
       /\ outcome[c] = "returned"
       /\ now - last_failure_time[1] >= recovery_timeout
       /\ recovery_timeout > 0
\* C25: with the retrier outside the breaker, an outer call that found the
\* breaker OPEN and ended with recovery_timeout still not elapsed since the
\* same last failure has made max_attempts calls of the breaker that were all
\* rejected, with the max_attempts - 1 backoff sleeps between them, has not
\* invoked the operation, has left the breaker as it was, and raises the
\* rejection.
OpenThroughout ==
  /\ rpc = "done"
  /\ at_entry[1].state = "OPEN"
  /\ at_entry[1].last_failure_time = last_failure_time
  /\ TimerRunning
C25_RejectedRetries ==
  OpenThroughout =>
    /\ Len(trace) = max_attempts
    /\ \A i \in Attempts : trace[i] = [tag |-> "err", x |-> RejectionError.kind]
    /\ sleeps = [i \in 1..(max_attempts - 1) |-> Delay(i - 1)]
    /\ now >= at_entry[1].now + (IF max_attempts > 1 THEN Delay(0) ELSE 0)
    /\ invoked = at_entry[1].invoked
    /\ op_invoked = at_entry[1].op_invoked
    /\ state = "OPEN"
    /\ failure_count = at_entry[1].failure_count
    /\ \E c \in StackCallers : gate[c] = "reject" /\ outcome[c] = "rejected"
    /\ result = <<[tag |-> "raise",
                   err |-> [kind |-> RejectionError.kind, at |-> max_attempts]]>>
C25_Witness ==
  /\ OpenThroughout
  /\ max_attempts >= 2
  /\ Len(sleeps) = max_attempts - 1
  /\ op_invoked >= 1
\* C27: per client address, at most max_requests handler invocations lie
\* within the last window_seconds at any time; a request that arrives when
\* max_requests of them are inside the window is answered 429, is not
\* recorded and does not reach the handler; a request that arrives when fewer
\* are inside the window, the older ones having left it, is admitted.
InWindow(i) == Len(SelectSeq(handled[i], LAMBDA x : x > now - window_seconds))
C27_RateLimited ==
  /\ [](\A i \in IPs : InWindow(i) <= max_requests)
  /\ [][\A r \in Routes, i \in IPs : decorated_function(r, i) =>
          IF InWindow(i) >= max_requests
            THEN /\ response'[1].status = 429
                 /\ handled' = handled
                 /\ \A k \in DOMAIN _rate_limit_storage'[i] :
                      _rate_limit_storage'[i][k] \in
                        {handled[i][j] : j \in DOMAIN handled[i]}
                 /\ Len(_rate_limit_storage'[i]) = InWindow(i)
            ELSE /\ response'[1].status = 200
                 /\ handled'[i] = Append(handled[i], now)
                 /\ Len(_rate_limit_storage'[i]) = InWindow(i) + 1]_vars
C27_Witness ==
  /\ response # None
  /\ response[1].status = 429
  /\ Len(handled[response[1].ip]) > max_requests
  /\ InWindow(response[1].ip) = max_requests
  /\ max_requests = MaxRequests
\* C30: get(k) returns the value of the latest set of k if and only if
\* neither delete(k) nor clear() was called since and now is not later than
\* that set's time plus its ttl; otherwise it returns None; an entry get finds
\* expired is gone from both dicts afterwards, and the two dicts have the
\* same keys at all times.
Unexpired(k) ==
  /\ k \in DOMAIN last_set
  /\ last_set[k].live
  /\ now <= last_set[k].at + last_set[k].ttl
C30_GetReturnsLatestLive ==
  /\ [](DOMAIN _cache = DOMAIN _timestamps)
  /\ [][\A k \in Keys : get(k) =>
          /\ cache_ret'[1].ret = IF Unexpired(k) THEN <<last_set[k].value>> ELSE None
          /\ ~Unexpired(k) => k \notin DOMAIN _cache' /\ k \notin DOMAIN _timestamps']_vars
C30_Witness ==
  /\ cache_ret # None
  /\ cache_ret[1].ret = None
  /\ cache_ret[1].key \in DOMAIN last_set
  /\ last_set[cache_ret[1].key].live
  /\ last_set[cache_ret[1].key].ttl >= 1
  /\ now > last_set[cache_ret[1].key].at + last_set[cache_ret[1].key].ttl
  /\ cache_ret[1].key \notin DOMAIN _cache
  /\ DOMAIN _cache # {}
\* C28: a call of verify_otp(email, code) returns True exactly when the
\* address has a row whose OTP_Code is the code and whose OTP_Expires is not
\* earlier than now; it then sets Verified to TRUE and empties OTP_Code and
\* OTP_Expires and changes nothing else; a call that returns False leaves the
\* sheet as it was; on a row whose code was emptied every call returns False.
SameAddress(e1, e2) == Lower(Strip(e1)) = Lower(Strip(e2))
VerifyOtpStep == otp_ret' # None /\ otp_ret' # otp_ret
C28_SingleUseOtp ==
  [][VerifyOtpStep =>
         LET i == _find_row_by_email(otp_ret'[1].email)
             code == otp_ret'[1].code
             valid == /\ i # 0
                      /\ sheet[i].OTP_Code = code
                      /\ sheet[i].OTP_Expires # None
                      /\ sheet[i].OTP_Expires[1] >= now
         IN /\ otp_ret'[1].ok <=> valid
            /\ otp_ret'[1].ok =>
                 sheet' = [sheet EXCEPT ![i] =
                             [@ EXCEPT !.Verified = "TRUE", !.OTP_Code = "",
                                       !.OTP_Expires = None]]
            /\ ~otp_ret'[1].ok => sheet' = sheet
            /\ (i # 0 /\ sheet[i].OTP_Code = "") => ~otp_ret'[1].ok]_vars
C28_Witness ==
  /\ otp_ret # None
  /\ ~otp_ret[1].ok
  /\ \E i \in DOMAIN sheet :
       /\ SameAddress(sheet[i].Email, otp_ret[1].email)
       /\ sheet[i].Verified = "TRUE"
       /\ sheet[i].OTP_Code = ""
       /\ sheet[i].OTP_Expires = None

\* C29: every request for a fresh code (GET /verify?email=, POST /resend-otp,
\* POST /manage with verify_email) leaves the address's row with Verified
\* FALSE; of a row that was there it keeps the address, the topic's column
\* and Max_items, and it leaves the other rows alone; an address becomes
\* verified only by a call of verify_otp for it that returns True.
FreshCodeStep(e) ==
  /\ sheet' # sheet
  /\ otp_ret' = otp_ret
  /\ \E otp_code \in Codes : sheet' = set_otp(e, otp_code, now + OtpLifetime)
  /\ verify_get(e) \/ resend_otp(e) \/ manage_verify_email(e)
C29_FreshCodeUnverifies ==
  /\ [][\A e \in Emails : FreshCodeStep(e) =>
          LET i == _find_row_by_email(e) IN
          /\ ~is_verified(e)'
          /\ \E j \in DOMAIN sheet' :
               /\ SameAddress(sheet'[j].Email, e)
               /\ sheet'[j].Verified = "FALSE"
               /\ sheet'[j].OTP_Code \in Codes
          /\ i # 0 =>
               /\ Len(sheet') = Len(sheet)
               /\ \A k \in DOMAIN sheet : k # i => sheet'[k] = sheet[k]
               /\ sheet'[i].Email = sheet[i].Email
               /\ sheet'[i].Technology = sheet[i].Technology
               /\ sheet'[i].Max_items = sheet[i].Max_items]_vars
  /\ [][\A e \in Emails : (sheet' # sheet /\ is_verified(e)' /\ ~is_verified(e)) =>
          /\ otp_ret' # None
          /\ otp_ret'[1].ok
          /\ SameAddress(otp_ret'[1].email, e)
          /\ \E e2 \in Emails, raw \in RawCodes :
               verify(e2, raw) \/ manage_verify(e2, raw)]_vars
C29_Witness ==
  /\ otp_ret # None
  /\ otp_ret[1].ok
  /\ \E i \in DOMAIN sheet :
       /\ SameAddress(sheet[i].Email, otp_ret[1].email)
       /\ sheet[i].Verified = "FALSE"
       /\ sheet[i].OTP_Code \in Codes
       /\ sheet[i].Technology = "TRUE"
       /\ sheet[i].Max_items = "3"
====
